---- MODULE Spec2Model ----
(***************************************************************************)
(* Model of icloud_to_s3.py: the iCloudS3Sync class (checkpoint load and   *)
(* save, destination probe, upload, per-photo transfer, the sync loop) and *)
(* the part of main() that turns the result of a run into an exit code.    *)
(*                                                                         *)
(* One behaviour is a sequence of process runs over one unchanged iCloud   *)
(* inventory.  A run is: StartRun (construction, sync_photos up to the     *)
(* loop), then for each photo Transfer (download_and_upload_photo) and     *)
(* LoopTail (statistics, periodic save, cap check and, when the loop ends, *)
(* the final save).  The environment decides the outcome of every I/O call *)
(* and may interrupt or kill the process between two steps.                *)
(***************************************************************************)
EXTENDS Integers, Sequences, FiniteSets, TLC

\* ---------------------------------------------------------------- bounds
MaxPhotos == 2        \* longest inventory of Spec
MaxRuns   == 2        \* process runs per behaviour
MaxCap    == 2        \* largest max_photos tried
MaxFaults == 1        \* failing I/O calls per behaviour
LongExtra == 1        \* SpecLong: photos beyond the first save period

\* ------------------------------------------------------- program constants
SavePeriod == 10      \* "if i % 10 == 0"
None       == 0 - 1   \* max_photos=None (Optional[int] left unset)
NoName     == 0       \* photo without a filename attribute
NoDate     == 0       \* photo without created / asset_date

\* The photos an inventory of Spec is made of: filename, created (yyyymmdd),
\* data (the bytes).  The two share a filename and a month and differ in content.
Pool ==
  { [filename |-> 1, created |-> 20240105, data |-> 1],
    [filename |-> 1, created |-> 20240120, data |-> 2] }

Photo(j, proto) ==
  [id |-> j, filename |-> proto.filename, created |-> proto.created, data |-> proto.data]

\* Inventories of length n: the photo at position j has id j.
InventoriesOfLen(n) ==
  { [j \in 1..n |-> Photo(j, f[j])] : f \in [1..n -> Pool] }

Inventories == UNION { InventoriesOfLen(n) : n \in 0..MaxPhotos }

\* SpecLong: one inventory, longer than the save period.  The first photo has
\* neither filename nor date; the others alternate between two names, so that
\* both fresh uploads and hash matches occur.
LongInventory ==
  [j \in 1..(SavePeriod + LongExtra) |->
     IF j = 1
       THEN [id |-> j, filename |-> NoName, created |-> NoDate, data |-> 1]
       ELSE [id |-> j, filename |-> 1 + (j % 2), created |-> 20240105, data |-> 1]]

\* ------------------------------------------------------------ environment
DownloadFaults == {"ok", "raises", "empty", "read_raises"}
ProbeFaults    == {"ok", "client_error", "raises"}
UploadFaults   == {"ok", "fails"}
SaveFaults     == {"ok", "open_fails", "write_fails"}
LoadFaults     == {"ok", "read_fails"}

Env == [dl : DownloadFaults, probe : ProbeFaults, up : UploadFaults]

Outcomes == {"AlreadySynced", "Skipped", "Uploaded", "UploadFailed", "FetchFailed", "Raised"}

VARIABLES
  photos,          \* photos_service.all: the inventory, unchanged across runs
  pc,              \* position of the process
  runNo,           \* runs started so far
  runsLeft,        \* runs the behaviour may still start
  prevFull,        \* the run before this one returned after an uncapped loop
  faultsLeft,      \* failing I/O calls the environment may still inject
  icloud,          \* self.icloud is set
  s3_client,       \* self.s3_client is set
  max_photos,      \* argument of sync_photos
  i,               \* loop index of sync_photos (1-based)
  processed_files, \* self.processed_files
  disk,            \* sync_state.json: [st, keys]
  dest,            \* the bucket: S3 key -> ETag, or NoObject
  scratch,         \* files in temp_dir
  stats,           \* the stats dict
  exit_code,       \* what main() returned (None while running)
  last,            \* the last download_and_upload_photo call: result and I/O made
  count,           \* this run: outcome -> number of photos that took that path
  visited,         \* this run: positions handed to download_and_upload_photo
  saves,           \* this run: save_sync_state calls made
  finalSave,       \* this run: the save after the loop was made
  saveFailed,      \* this run: some save_sync_state call failed
  loaded,          \* this run: processed_files right after load_sync_state
  uploadedNow,     \* this run: photo ids whose upload succeeded
  lost             \* photo ids uploaded by a run that died before they were durable

vars == << photos, pc, runNo, runsLeft, prevFull, faultsLeft, icloud, s3_client,
           max_photos, i, processed_files,
           disk, dest, scratch, stats, exit_code, last, count, visited, saves,
           finalSave, saveFailed, loaded, uploadedNow, lost >>

\* ------------------------------------------------------------ pure helpers
NoObject == << >>

\* getattr(photo, 'filename', f"photo_{photo.id}.jpg"); the fallback name is
\* written 0 - id, which no real filename equals.
Filename(photo) ==
  IF photo.filename = NoName THEN 0 - photo.id ELSE photo.filename

\* photo_id = f"{photo.id}_{filename}"
PhotoId(photo) == << photo.id, Filename(photo) >>

\* generate_s3_key: photos/<year>/<month>/<filename>, or photos/unknown_date/<filename>
\* (year 0, month 0).  The day of the month is not part of the key.
generate_s3_key(photo, filename) ==
  IF photo.created # NoDate
    THEN << photo.created \div 10000, (photo.created \div 100) % 100, filename >>
    ELSE << 0, 0, filename >>

\* get_file_hash: the MD5 digest of the bytes of the file.
get_file_hash(data) == << "md5", data >>

\* The ETag S3 reports for a simple upload: the digest in double quotes.
ETagOf(hash) == << "\"", hash, "\"" >>

\* response.get('ETag', '').strip('"')
StripQuotes(etag) == IF etag = NoObject THEN NoObject ELSE etag[2]

S3Keys == { generate_s3_key(p, Filename(Photo(j, p))) : p \in Pool, j \in 1..MaxPhotos }
            \cup { generate_s3_key(LongInventory[j], Filename(LongInventory[j])) :
                     j \in DOMAIN LongInventory }

AllIds(inv) == { PhotoId(inv[j]) : j \in DOMAIN inv }

DiskKeys == IF disk.st = "ok" THEN disk.keys ELSE {}

\* Python truthiness of an Optional[int]
Truthy(n) == n # None /\ n # 0

\* ------------------------------------------------------- checkpoint store
\* As load_sync_state, a file that cannot be read taken for the ids last written.
load_sync_state_IgnoresError(dsk, pf, fault) ==
  IF dsk.st = "absent" THEN pf ELSE dsk.keys

\* load_sync_state: the new value of self.processed_files.
load_sync_state(dsk, pf, fault) ==
  IF dsk.st = "absent" THEN pf                       \* os.path.exists is false
  ELSE IF fault = "read_fails" \/ dsk.st = "corrupt" THEN pf  \* except: warning
  ELSE dsk.keys

\* save_sync_state: the new content of the state file.  open(..., 'w')
\* truncates the file before json.dump writes it.
save_sync_state(dsk, pf, fault) ==
  CASE fault = "ok"          -> [st |-> "ok", keys |-> pf]
    [] fault = "open_fails"  -> dsk
    [] fault = "write_fails" -> [st |-> "corrupt", keys |-> {}]

\* The save after the loop ("# Final save").
FinalSave_Skipped(dsk, pf, fault) == dsk

FinalSave(dsk, pf, fault) == save_sync_state(dsk, pf, fault)

\* ------------------------------------------------------ destination prober
\* As file_exists_in_s3, the quotes left on the ETag.
file_exists_in_s3_Unstripped(dst, s3_key, local_hash, fault) ==
  IF fault = "client_error" THEN FALSE
  ELSE IF dst[s3_key] = NoObject THEN FALSE
  ELSE dst[s3_key] = local_hash

\* file_exists_in_s3: head_object, then the ETag compared with the local hash.
file_exists_in_s3(dst, s3_key, local_hash, fault) ==
  IF fault = "client_error" THEN FALSE              \* ClientError other than 404
  ELSE IF dst[s3_key] = NoObject THEN FALSE         \* ClientError 404
  ELSE StripQuotes(dst[s3_key]) = local_hash

\* upload_to_s3: the bucket after the call, and the bool it returns.
upload_to_s3(dst, s3_key, hash, fault) ==
  IF fault = "ok"
    THEN [ok |-> TRUE,  dest |-> [dst EXCEPT ![s3_key] = ETagOf(hash)]]
    ELSE [ok |-> FALSE, dest |-> dst]

\* -------------------------------------------------------- transfer engine
\* What one call of download_and_upload_photo did: the bool it returned, the
\* path it took, the I/O calls it made and which of them failed, and the state
\* it left.
Result(ret, outcome, io, failed, pf, dst, scr) ==
  [ret |-> ret, outcome |-> outcome, io |-> io, failed |-> failed,
   processed_files |-> pf, dest |-> dst, scratch |-> scr]

\* As UploadStep, the id added whatever upload_to_s3 returned.
UploadStep_MarksAnyway(photo_id, temp_file, s3_key, file_hash, e, pf, dst, scr) ==
  LET up == upload_to_s3(dst, s3_key, file_hash, e.up)
      io == {"download", "head_object", "upload_file"}
      pe == IF e.probe = "client_error" THEN {"head_object"} ELSE {}
  IN  IF up.ok
        THEN Result(TRUE, "Uploaded", io, pe, pf \cup {photo_id}, up.dest, scr \ {temp_file})
        ELSE Result(TRUE, "UploadFailed", io, pe \cup {"upload_file"}, pf \cup {photo_id},
                    up.dest, scr \ {temp_file})

\* The part of download_and_upload_photo after the probe said "not there".
UploadStep(photo_id, temp_file, s3_key, file_hash, e, pf, dst, scr) ==
  LET up == upload_to_s3(dst, s3_key, file_hash, e.up)
      io == {"download", "head_object", "upload_file"}
      pe == IF e.probe = "client_error" THEN {"head_object"} ELSE {}
  IN  IF up.ok
        THEN Result(TRUE, "Uploaded", io, pe, pf \cup {photo_id}, up.dest, scr \ {temp_file})
        ELSE Result(TRUE, "UploadFailed", io, pe \cup {"upload_file"}, pf, up.dest,
                    scr \ {temp_file})

\* The part of download_and_upload_photo once the scratch file is written.
ProbeStep(photo, photo_id, temp_file, e, pf, dst, scr) ==
  LET file_hash == get_file_hash(photo.data)
      s3_key    == generate_s3_key(photo, Filename(photo))
  IN  IF e.probe = "raises"                          \* not a ClientError
        THEN Result(FALSE, "Raised", {"download", "head_object"}, {"head_object"},
                    pf, dst, scr)
      ELSE IF file_exists_in_s3(dst, s3_key, file_hash, e.probe)
        THEN Result(TRUE, "Skipped", {"download", "head_object"}, {},
                    pf \cup {photo_id}, dst, scr \ {temp_file})
      ELSE UploadStep(photo_id, temp_file, s3_key, file_hash, e, pf, dst, scr)

\* As download_and_upload_photo, without the "already processed" return.
download_and_upload_photo_NoFastPath(photo, e, pf, dst, scr) ==
  LET photo_id  == PhotoId(photo)
      temp_file == Filename(photo)
  IN  IF e.dl = "raises"
        THEN Result(FALSE, "Raised", {"download"}, {"download"}, pf, dst, scr)
      ELSE IF e.dl = "empty"
        THEN Result(FALSE, "FetchFailed", {"download"}, {"download"}, pf, dst, scr)
      ELSE IF e.dl = "read_raises"
        THEN Result(FALSE, "Raised", {"download"}, {"download"}, pf, dst,
                    scr \cup {temp_file})
      ELSE ProbeStep(photo, photo_id, temp_file, e, pf, dst, scr \cup {temp_file})

\* download_and_upload_photo(photo, temp_dir) under the environment e.
download_and_upload_photo(photo, e, pf, dst, scr) ==
  LET photo_id  == PhotoId(photo)
      temp_file == Filename(photo)                   \* os.path.join(temp_dir, filename)
  IN  IF photo_id \in pf
        THEN Result(TRUE, "AlreadySynced", {}, {}, pf, dst, scr)
      ELSE IF e.dl = "raises"                        \* photo.download() raises
        THEN Result(FALSE, "Raised", {"download"}, {"download"}, pf, dst, scr)
      ELSE IF e.dl = "empty"                         \* falsy download_response
        THEN Result(FALSE, "FetchFailed", {"download"}, {"download"}, pf, dst, scr)
      ELSE IF e.dl = "read_raises"                   \* raw.read() raises in the with
        THEN Result(FALSE, "Raised", {"download"}, {"download"}, pf, dst,
                    scr \cup {temp_file})
      ELSE ProbeStep(photo, photo_id, temp_file, e, pf, dst, scr \cup {temp_file})

\* ------------------------------------------------------- sync orchestrator
ZeroStats == [total |-> 0, processed |-> 0, uploaded |-> 0, skipped |-> 0, errors |-> 0]

\* As Tally, a failed photo not counted.
Tally_DropsErrors(st, ret, photo_id, pf) ==
  IF ret
    THEN [st EXCEPT !.processed = @ + 1,
                    !.uploaded  = IF photo_id \in pf THEN @ + 1 ELSE @]
    ELSE st

\* "if self.download_and_upload_photo(...)": the statistics after one photo.
Tally(st, ret, photo_id, pf) ==
  IF ret
    THEN [st EXCEPT !.processed = @ + 1,
                    !.uploaded  = IF photo_id \in pf THEN @ + 1 ELSE @]
    ELSE [st EXCEPT !.errors = @ + 1]

\* As Periodic, the save never due.
Periodic_Never(idx) == FALSE

\* "if i % 10 == 0"
Periodic(idx) == idx % SavePeriod = 0

\* As LoopEnds, the break one iteration late.
LoopEnds_Late(cap, idx, total) == (Truthy(cap) /\ idx = cap + 1) \/ idx = total

\* The loop is left by the break ("if max_photos and i == max_photos") or
\* because enumerate(photos, 1) is exhausted.
LoopEnds(cap, idx, total) == (Truthy(cap) /\ idx = cap) \/ idx = total

NoCall == [ret |-> TRUE, outcome |-> "none", io |-> {}, failed |-> {}]

ZeroCount == [o \in Outcomes |-> 0]

Stopped == {"idle", "done", "raised", "interrupted", "crashed"}

\* ------------------------------------------------------------------ Init
InitRest ==
  /\ pc = "idle"
  /\ runNo = 0
  /\ prevFull = FALSE
  /\ faultsLeft = MaxFaults
  /\ icloud = FALSE
  /\ s3_client = FALSE
  /\ max_photos = None
  /\ i = 0
  /\ processed_files = {}
  /\ disk = [st |-> "absent", keys |-> {}]
  /\ dest = [k \in S3Keys |-> NoObject]
  /\ scratch = {}
  /\ stats = ZeroStats
  /\ exit_code = None
  /\ last = NoCall
  /\ count = ZeroCount
  /\ visited = << >>
  /\ saves = 0
  /\ finalSave = FALSE
  /\ saveFailed = FALSE
  /\ loaded = {}
  /\ uploadedNow = {}
  /\ lost = {}

Init == photos \in Inventories /\ runsLeft = MaxRuns /\ InitRest

\* One run over the long inventory.
InitLong == photos = LongInventory /\ runsLeft = 1 /\ InitRest

\* --------------------------------------------------------------- actions
\* As Initialized, the destination handle not looked at.
Initialized_SourceOnly(ic, s3) == ic

\* "if not self.icloud or not self.s3_client: raise": the negation of the test.
Initialized(ic, s3) == ic /\ s3

\* A process starts: iCloudS3Sync.__init__, the two setups, then sync_photos
\* up to the first loop iteration (handle check, load_sync_state, the photo
\* list, the empty-list return, the stats dict, the temporary directory).
StartRun(ic, s3, cap, lf) ==
  /\ pc \in Stopped
  /\ runsLeft > 0
  /\ runsLeft' = runsLeft - 1
  /\ runNo' = runNo + 1
  /\ prevFull' = (pc = "done" /\ ~Truthy(max_photos))
  /\ icloud' = ic
  /\ s3_client' = s3
  /\ max_photos' = cap
  /\ i' = 0
  /\ scratch' = {}
  /\ last' = NoCall
  /\ count' = ZeroCount
  /\ visited' = << >>
  /\ saves' = 0
  /\ finalSave' = FALSE
  /\ saveFailed' = FALSE
  /\ uploadedNow' = {}
  /\ UNCHANGED << photos, disk, dest, lost >>
  /\ IF ~Initialized(ic, s3)
       THEN \* raise Exception("iCloud or S3 not properly initialized")
            /\ pc' = "raised"
            /\ exit_code' = 1
            /\ processed_files' = {}
            /\ loaded' = {}
            /\ stats' = ZeroStats
            /\ faultsLeft' = faultsLeft
       ELSE LET pf == load_sync_state(disk, {}, lf)
                lfailed == lf # "ok" /\ disk.st = "ok"
            IN
            /\ lfailed => faultsLeft > 0
            /\ faultsLeft' = IF lfailed THEN faultsLeft - 1 ELSE faultsLeft
            /\ processed_files' = pf
            /\ loaded' = pf
            /\ IF Len(photos) = 0
                 THEN /\ pc' = "done"          \* "No photos found!": return zeros
                      /\ exit_code' = 0
                      /\ stats' = ZeroStats
                 ELSE /\ pc' = "transfer"
                      /\ exit_code' = None
                      /\ stats' = [ZeroStats EXCEPT !.total = Len(photos)]

\* One call of download_and_upload_photo, for the photo at position i + 1.
Transfer(e) ==
  /\ pc = "transfer"
  /\ LET r == download_and_upload_photo(photos[i + 1], e, processed_files, dest, scratch)
     IN  /\ r.failed # {} => faultsLeft > 0
         /\ faultsLeft' = IF r.failed # {} THEN faultsLeft - 1 ELSE faultsLeft
         /\ processed_files' = r.processed_files
         /\ dest' = r.dest
         /\ scratch' = r.scratch
         /\ last' = [ret |-> r.ret, outcome |-> r.outcome, io |-> r.io, failed |-> r.failed]
         /\ count' = [count EXCEPT ![r.outcome] = @ + 1]
         /\ uploadedNow' = IF r.outcome = "Uploaded"
                             THEN uploadedNow \cup {PhotoId(photos[i + 1])}
                             ELSE uploadedNow
  /\ i' = i + 1
  /\ visited' = Append(visited, i + 1)
  /\ pc' = "tail"
  /\ UNCHANGED << photos, runNo, runsLeft, prevFull, icloud, s3_client, max_photos, disk,
                  stats, exit_code, saves, finalSave, saveFailed, loaded, lost >>

\* The rest of the loop body and, when the loop ends, the rest of sync_photos
\* and of main: statistics, periodic save, break, final save, return 0.
LoopTail(sf1, sf2) ==
  /\ pc = "tail"
  /\ LET periodic == Periodic(i)
         stop     == LoopEnds(max_photos, i, Len(photos))
         d1       == IF periodic THEN save_sync_state(disk, processed_files, sf1) ELSE disk
         d2       == IF stop THEN FinalSave(d1, processed_files, sf2) ELSE d1
         nfail    == (IF periodic /\ sf1 # "ok" THEN 1 ELSE 0)
                       + (IF stop /\ sf2 # "ok" THEN 1 ELSE 0)
     IN  /\ nfail <= faultsLeft
         /\ faultsLeft' = faultsLeft - nfail
         /\ stats' = Tally(stats, last.ret, PhotoId(photos[i]), processed_files)
         /\ disk' = d2
         /\ saves' = saves + (IF periodic THEN 1 ELSE 0) + (IF stop THEN 1 ELSE 0)
         /\ saveFailed' = (saveFailed \/ (periodic /\ sf1 # "ok") \/ (stop /\ sf2 # "ok"))
         /\ finalSave' = stop
         /\ pc' = IF stop THEN "done" ELSE "transfer"
         /\ exit_code' = IF stop THEN 0 ELSE exit_code
         /\ scratch' = IF stop THEN {} ELSE scratch   \* TemporaryDirectory.__exit__
  /\ UNCHANGED << photos, runNo, runsLeft, prevFull, icloud, s3_client, max_photos, i,
                  processed_files, dest, last, count, visited, loaded, uploadedNow, lost >>

\* What is left of a process that has ended without returning from
\* sync_photos: nothing of its memory, and no temporary directory.
Gone ==
  /\ i' = 0
  /\ processed_files' = {}
  /\ scratch' = {}
  /\ stats' = ZeroStats
  /\ last' = NoCall
  /\ count' = ZeroCount
  /\ visited' = << >>
  /\ loaded' = {}
  /\ uploadedNow' = {}
  /\ lost' = lost \cup (uploadedNow \ DiskKeys)
  /\ saves' = 0
  /\ finalSave' = FALSE
  /\ saveFailed' = FALSE
  /\ UNCHANGED << photos, runNo, runsLeft, prevFull, faultsLeft, icloud, s3_client, max_photos,
                  disk, dest >>

\* Ctrl-C while the loop runs: KeyboardInterrupt is no Exception, so neither
\* handler of the loop catches it; the with block removes the directory,
\* sync_photos is left without the final save and main returns 1.
Interrupt ==
  /\ pc \in {"transfer", "tail"}
  /\ pc' = "interrupted"
  /\ exit_code' = 1
  /\ Gone

\* The process is killed (or the machine stops) while the loop runs.
Crash ==
  /\ pc \in {"transfer", "tail"}
  /\ pc' = "crashed"
  /\ exit_code' = None
  /\ Gone

Caps == {None} \cup 0..MaxCap

\* The environments that differ in a call the code makes: a fault of a call
\* that is never reached is written "ok".
Reached(e) ==
  /\ e.dl # "ok" => e.probe = "ok"
  /\ (e.dl # "ok" \/ e.probe = "raises") => e.up = "ok"

Next ==
  \/ \E ic \in BOOLEAN, s3 \in BOOLEAN, cap \in Caps, lf \in LoadFaults : StartRun(ic, s3, cap, lf)
  \/ \E e \in {x \in Env : Reached(x)} : Transfer(e)
  \/ \E sf1 \in SaveFaults, sf2 \in SaveFaults : LoopTail(sf1, sf2)
  \/ Interrupt
  \/ Crash

Spec == Init /\ [][Next]_vars

SpecLong == InitLong /\ [][Next]_vars

\* ================================================================ claims
Running == pc \in {"transfer", "tail", "done"}

Min(a, b) == IF a < b THEN a ELSE b

\* The photo download_and_upload_photo was last called on.
Cur == photos[i]

Unflushed == processed_files \ DiskKeys

\* A step that is one call of download_and_upload_photo.
TransferStep == pc = "transfer" /\ pc' = "tail"

\* A step that is the rest of one loop iteration.
TailStep == pc = "tail" /\ pc' \in {"transfer", "done"}

\* C1 (as claimed): when download_and_upload_photo has returned, whatever the
\* outcome, the scratch file of that photo does not exist.
C1_ScratchRemoved ==
  pc = "tail" => Filename(Cur) \notin scratch

C3_InterruptFlushes ==
  [][pc' = "interrupted" => (exit_code' # 0 /\ processed_files \subseteq DiskKeys')]_vars

\* C4 (as claimed): when the upload of a photo fails, the call returns False
\* and the loop adds one to errors and nothing to processed.
C4_UploadFailureCounted ==
  [][(TailStep /\ last.outcome = "UploadFailed") =>
       (~last.ret /\ stats'.errors = stats.errors + 1
          /\ stats'.processed = stats.processed)]_vars

\* C5 (as claimed): at the end of a run uploaded is the number of photos
\* uploaded in the run and skipped the number found at the destination or in
\* the checkpoint, each of them counted once in processed.
C5_StatsMatchOutcomes ==
  pc = "done" =>
    /\ stats.uploaded = count["Uploaded"]
    /\ stats.skipped = count["Skipped"] + count["AlreadySynced"]
    /\ stats.processed >= stats.uploaded + stats.skipped

\* C6: a call of download_and_upload_photo adds no id but that of its photo,
\* and adds it only when head_object showed the photo's hash at its key or
\* upload_file put it there; a call in which the download, the probe or the
\* upload failed adds nothing; a photo whose id is not in the set is fetched;
\* and no other step of a run adds an id (the load at the start reads them
\* from the state file).
C6_MarkedOnlyWhenConfirmed ==
  [][/\ TransferStep =>
          LET photo == photos[i + 1]
              key   == generate_s3_key(photo, Filename(photo))
              hash  == get_file_hash(photo.data)
          IN  /\ \A k \in processed_files' \ processed_files :
                    /\ k = PhotoId(photo)
                    /\ \/ /\ last'.outcome = "Skipped"
                          /\ StripQuotes(dest[key]) = hash
                          /\ dest' = dest
                       \/ /\ last'.outcome = "Uploaded"
                          /\ "upload_file" \in last'.io \ last'.failed
                          /\ StripQuotes(dest'[key]) = hash
              /\ last'.outcome \in {"FetchFailed", "UploadFailed", "Raised"}
                    => processed_files' = processed_files
              /\ PhotoId(photo) \notin processed_files => "download" \in last'.io
     /\ (pc \in {"transfer", "tail"} /\ ~TransferStep) =>
          processed_files' \subseteq processed_files
     /\ pc \in Stopped => processed_files' \subseteq DiskKeys]_vars

C6_Witness ==
  /\ pc = "tail"
  /\ last.outcome = "UploadFailed"
  /\ PhotoId(Cur) \notin processed_files
  /\ uploadedNow # {}
  /\ uploadedNow \subseteq processed_files

C10_CapVisitsMin ==
  (pc = "done" /\ max_photos # None /\ Len(photos) > 0) =>
    /\ Len(visited) = Min(max_photos, Len(photos))
    /\ \A j \in 1..Len(visited) : visited[j] = j

\* C10 (amended): a run given max_photos = n with n >= 1 that reaches its end
\* has called download_and_upload_photo on the first min(n, total) photos, in
\* order, ids already in the checkpoint counting like the others; with
\* max_photos 0 or unset it has called it on every photo.
C10_PositiveCapVisitsPrefix ==
  (pc = "done" /\ Len(photos) > 0) =>
    LET n == IF max_photos >= 1 THEN Min(max_photos, Len(photos)) ELSE Len(photos)
    IN  /\ Len(visited) = n
        /\ \A j \in 1..n : visited[j] = j
        /\ i = n
        /\ stats.processed + stats.errors = n

C10_Witness ==
  /\ pc = "done"
  /\ max_photos >= 1
  /\ max_photos < Len(photos)
  /\ visited = << 1 >>
  /\ count["AlreadySynced"] = 1

\* The S3 key and the content hash of a photo.
KeyOf(photo) == generate_s3_key(photo, Filename(photo))

HashOf(photo) == get_file_hash(photo.data)

\* C11 (as claimed): a loop iteration whose one save_sync_state call fails goes
\* on with the run and leaves in the state file the ids of the last save that
\* succeeded.
C11_FailedFlushKeepsSnapshot ==
  [][(pc = "tail" /\ saves' = saves + 1 /\ faultsLeft' = faultsLeft - 1) =>
       (pc' \in {"transfer", "done"} /\ DiskKeys' = DiskKeys)]_vars

\* C12 (as claimed): no step removes an object from the bucket, and
\* upload_file is never called for a key whose object carries the hash of the
\* photo.
C12_NoPutOverMatch ==
  [][/\ \A k \in S3Keys : dest[k] # NoObject => dest'[k] # NoObject
     /\ (TransferStep /\ "upload_file" \in last'.io) =>
          StripQuotes(dest[KeyOf(photos[i + 1])]) # HashOf(photos[i + 1])]_vars

\* C12 (amended): no step removes an object from the bucket; a call of
\* download_and_upload_photo changes no key but that of its photo; and
\* upload_file is called for a key whose object carries the hash of the photo
\* only when head_object ended in a ClientError other than 404.
C12_NoPutOverMatchUnlessProbeFault ==
  [][/\ \A k \in S3Keys : dest[k] # NoObject => dest'[k] # NoObject
     /\ ~TransferStep => dest' = dest
     /\ TransferStep =>
          LET photo == photos[i + 1] IN
          /\ \A k \in S3Keys \ {KeyOf(photo)} : dest'[k] = dest[k]
          /\ ("upload_file" \in last'.io /\ "head_object" \notin last'.failed) =>
                StripQuotes(dest[KeyOf(photo)]) # HashOf(photo)
          /\ "upload_file" \notin last'.io => dest' = dest]_vars

C12_Witness ==
  /\ pc = "tail"
  /\ last.outcome = "Skipped"
  /\ last.failed = {}
  /\ StripQuotes(dest[KeyOf(Cur)]) = HashOf(Cur)
  /\ PhotoId(Cur) \notin uploadedNow

\* The paths of download_and_upload_photo on which a step of the transfer
\* failed.
FailedOutcomes == {"FetchFailed", "Raised", "UploadFailed"}

\* C13 (as claimed): a photo whose fetch, hashing, probe or upload failed adds
\* one to errors, and the loop goes on to the next photo unless this was the
\* last one of the capped enumeration.
C13_FailureCountedLoopGoesOn ==
  [][(TailStep /\ last.outcome \in FailedOutcomes) =>
       /\ stats'.errors = stats.errors + 1
       /\ pc' = IF LoopEnds(max_photos, i, Len(photos)) THEN "done" ELSE "transfer"]_vars

\* C14: sync_photos called while self.icloud or self.s3_client is unset raises
\* at once: the state file is neither read nor written, no photo is handed to
\* download_and_upload_photo, the bucket is not touched, and main returns 1.
C14_UninitializedFailsFast ==
  [][(runNo' = runNo + 1 /\ (~icloud' \/ ~s3_client')) =>
       /\ pc' = "raised"
       /\ exit_code' = 1
       /\ processed_files' = {} /\ loaded' = {}
       /\ disk' = disk /\ dest' = dest
       /\ saves' = 0 /\ visited' = << >> /\ last' = NoCall
       /\ faultsLeft' = faultsLeft]_vars

C14_Witness ==
  /\ pc = "raised"
  /\ icloud /\ ~s3_client
  /\ DiskKeys # {}
  /\ loaded = {}
  /\ Len(photos) > 0

\* C15: a run whose state file is absent, cannot be read or cannot be parsed
\* goes on from the empty set (it does not raise), and every photo it then
\* handles is fetched, none taken as already processed.
C15_LoadNeverFails ==
  [][/\ (runNo' = runNo + 1 /\ icloud' /\ s3_client'
            /\ (disk.st # "ok" \/ faultsLeft' < faultsLeft)) =>
          /\ processed_files' = {} /\ loaded' = {}
          /\ pc' = IF Len(photos) = 0 THEN "done" ELSE "transfer"
          /\ exit_code' # 1
     /\ (TransferStep /\ loaded = {}) =>
          /\ last'.outcome # "AlreadySynced"
          /\ "download" \in last'.io]_vars

C15_Witness ==
  /\ pc = "tail"
  /\ loaded = {}
  /\ DiskKeys # {}
  /\ PhotoId(Cur) \in DiskKeys
  /\ "download" \in last.io

\* C16 (as claimed): file_exists_in_s3 answers True exactly when the object is
\* there with an ETag equal to the local hash; in every other case of the
\* head_object call, a fault of the destination included, the answer is False
\* and download_and_upload_photo goes on to upload_file.
C16_ProbeFalseThenUpload ==
  [][(TransferStep /\ "head_object" \in last'.io) =>
       LET photo == photos[i + 1]
           match == StripQuotes(dest[KeyOf(photo)]) = HashOf(photo)
       IN  /\ last'.outcome = "Skipped" <=> (match /\ "head_object" \notin last'.failed)
           /\ last'.outcome # "Skipped" => "upload_file" \in last'.io]_vars

\* C17: for a photo whose id is in processed_files, download_and_upload_photo
\* returns True at once: no download, head_object or upload_file call, no
\* temporary file, processed_files and the bucket as they were.
C17_FastPathTouchesNothing ==
  [][(TransferStep /\ PhotoId(photos[i + 1]) \in processed_files) =>
       /\ last'.outcome = "AlreadySynced"
       /\ last'.ret
       /\ last'.io = {}
       /\ scratch' = scratch
       /\ processed_files' = processed_files
       /\ dest' = dest
       /\ faultsLeft' = faultsLeft]_vars

C17_Witness ==
  /\ pc = "tail"
  /\ last.outcome = "AlreadySynced"
  /\ PhotoId(Cur) \in loaded
  /\ last.io = {}
  /\ scratch = {}

\* C18 (as claimed): while a run is going, every photo whose id the run has
\* added to processed_files has, at its S3 key, an object whose ETag is the
\* hash of that photo.
C18_MarkedMeansStored ==
  Running =>
    \A j \in DOMAIN photos :
      PhotoId(photos[j]) \in processed_files \ loaded =>
        StripQuotes(dest[KeyOf(photos[j])]) = HashOf(photos[j])

\* C19 (as claimed): a save_sync_state that succeeds leaves in the state file
\* at least the ids that were in it, and between load_sync_state and the end of
\* the run processed_files only grows.
C19_CheckpointNeverLosesKey ==
  [][/\ (saves' > saves /\ disk'.st = "ok") => DiskKeys \subseteq DiskKeys'
     /\ (pc \in {"transfer", "tail"} /\ Running') =>
          processed_files \subseteq processed_files']_vars

\* The sum sync_photos keeps equal to the number of finished iterations.
Handled == stats.processed + stats.errors

\* C20: after the i-th iteration processed + errors = i; no counter of stats
\* goes down while the run lasts; and when the run returns the sum is the number
\* of photos handed to download_and_upload_photo, at most stats.total.
C20_CountersAddUp ==
  [][/\ pc' = "transfer" => Handled' = i'
     /\ pc' = "tail" => Handled' = i' - 1
     /\ pc' = "done" => (Handled' = Len(visited') /\ Handled' <= stats'.total)
     /\ (pc \in {"transfer", "tail"} /\ Running') =>
          /\ stats'.total = stats.total
          /\ stats'.processed >= stats.processed
          /\ stats'.uploaded >= stats.uploaded
          /\ stats'.skipped >= stats.skipped
          /\ stats'.errors >= stats.errors]_vars

C20_Witness ==
  /\ pc = "done"
  /\ stats.errors = 1
  /\ stats.processed = 1
  /\ Len(visited) = 2
  /\ stats.total = 2

====
